---- MODULE Spec2Model ----
(***************************************************************************)
(* Model of the real-time chat hook useChat (src/src/hooks/useChat.ts) of *)
(* the Sprint Mate frontend: React state and refs of the hook, the STOMP  *)
(* clients it creates, the history fetches and reconnect timers it leaves *)
(* in flight, and the server side of the conversation topics.             *)
(*                                                                         *)
(* The STOMP Client of @stomp/stompjs is modelled at the boundary the hook *)
(* uses: activate() starts a connection attempt, deactivate() closes the  *)
(* transport of a connected client, `connected` is true between the       *)
(* CONNECTED frame and the close of the transport, and the callbacks      *)
(* onConnect, onDisconnect, onStompError and onWebSocketClose run the     *)
(* closures the hook passed to the constructor.                           *)
(*                                                                         *)
(* The pages are modelled next to the hook: the AuthProvider (user and    *)
(* loading flag), the route table of App with its wrappers ProtectedRoute *)
(* and RoleSelectRoute, the redirect effect of Login, and handleSelectRole *)
(* of the RoleSelect page.                                                 *)
(***************************************************************************)
EXTENDS Integers, Sequences, FiniteSets, TLC

(* ----------------------------- bounds ---------------------------------- *)
\* number of STOMP clients (activations with a non-null matchId) created
MaxClients == 2
\* number of messages the server stores per conversation
MaxMsgs == 1
\* number of sendMessage calls
MaxSends == 1
\* number of STOMP clients created in the specification of sendMessage
MaxSendClients == 1
\* number of messages the server stores per conversation in the
\* specification of the history
MaxHistMsgs == 2
\* number of frames with a body that is not JSON
MaxGarbage == 1
\* number of page loads after the first
MaxLoads == 1
\* number of role selections
MaxSelects == 2
\* number of redirects the router follows in a row
MaxHops == 4
\* number of clicks on Find Partner
MaxFinds == 2
\* number of ticks of the poll interval
MaxPolls == 2
\* number of clicks on Cancel Waiting
MaxCancels == 2
\* number of submit events of the completion form
MaxSubmits == 2

(* --------------------------- constants --------------------------------- *)
RECONNECT_DELAY_BASE == 1000
MAX_RECONNECT_DELAY == 30000
MaxReconnectAttempts == 5

Null == "null"
NoClient == 0
Conv == {"A", "B"}
Content == {"hi", "yo"}
SendDestination == "/app/chat.send"

\* user === null in the AuthContext; a user with user.role === null is Null
NoUser == "nouser"
\* the null of useState<MatchCompletion | null>: no completion has this url
NoResult == [repoUrl |-> <<>>, reviewed |-> FALSE]
Roles == {"FRONTEND", "BACKEND"}
Paths == {"/login", "/role-select", "/dashboard", "/", "/nowhere"}

ErrHistory == "Failed to load chat history"
ErrSession == "Session expired. Please refresh the page."
ErrChat == "Chat connection failed. Please refresh the page."

VARIABLES
  mounted,              \* the hook has run its first effect
  matchId,              \* the matchId argument of the current render
  messages,             \* useState: ChatMessage[]
  isConnected,          \* useState
  isLoading,            \* useState
  error,                \* useState: string | null
  clientRef,            \* useRef: index of the current Client, or NoClient
  reconnectAttemptRef,  \* useRef
  shouldStopRef,        \* useRef
  hasConnectedRef,      \* useRef
  messageIdsRef,        \* useRef: Set of message ids
  clients,              \* every Client created so far, by creation order
  fetches,              \* getChatHistory calls awaiting their response
  timers,               \* pending setTimeout callbacks of onWebSocketClose
  created,              \* server: number of messages stored per conversation
  published,            \* frames published by sendMessage
  warnings,             \* number of 'Cannot send message' warnings logged
  parseErrors,          \* number of 'Failed to parse message' errors logged
  authIsLoading,        \* AuthProvider useState isLoading
  user,                 \* AuthProvider useState user: NoUser, or the role of the user
  session,              \* server: what GET /users/me answers, NoUser when it rejects
  location,             \* the path the router is at
  requested,            \* the path the page was loaded with
  hops,                 \* redirects since the last load, navigate() or change of user
  selectedRole,         \* RoleSelect useState selectedRole
  selectIsLoading,      \* RoleSelect useState isLoading
  selectPc,             \* the await handleSelectRole is suspended at, or "idle"
  updateCalls,          \* arguments of the userService.updateRole calls
  errorToasts,          \* number of toast.error calls
  successToasts,        \* number of toast.success calls
  navTimers,            \* pending setTimeout(() => navigate('/dashboard'), 500)
  loads,                \* number of page loads after the first
  dashboardState,       \* Dashboard useState: "IDLE", "WAITING" or "MATCHED"
  matchStatus,          \* Dashboard useState: the status of the MatchStatus, or Null
  isPolling,            \* Dashboard useState
  dashIsLoading,        \* Dashboard useState isLoading
  finds,                \* findMatch calls of handleFindMatch awaiting their response
  polls,                \* findMatch calls of the poll interval awaiting their response
  cancels,              \* cancelWaiting calls awaiting their response
  findCalls,            \* number of findMatch calls of handleFindMatch
  pollCalls,            \* number of findMatch calls of the poll interval
  cancelCalls,          \* number of cancelWaiting calls
  isOpen,               \* CompleteSprintModal prop isOpen (Dashboard isCompleteModalOpen)
  prevIsOpen,           \* CompleteSprintModal useState
  githubUrl,            \* CompleteSprintModal useState
  modalState,           \* CompleteSprintModal useState: "input", "analyzing" or "result"
  modalError,           \* CompleteSprintModal useState error
  result,               \* CompleteSprintModal useState: MatchCompletion, or Null
  completeCalls,        \* urls of the matchService.completeMatch calls
  completePending,      \* completeMatch calls awaiting their response
  onCompleteCalls,      \* arguments of the onComplete calls
  submits               \* number of submit events of the form

vars == <<mounted, matchId, messages, isConnected, isLoading, error, clientRef,
          reconnectAttemptRef, shouldStopRef, hasConnectedRef, messageIdsRef,
          clients, fetches, timers, created, published, warnings, parseErrors,
          authIsLoading, user, session, location, requested, hops, selectedRole,
          selectIsLoading, selectPc, updateCalls, errorToasts, successToasts,
          navTimers, loads,
          dashboardState, matchStatus, isPolling, dashIsLoading, finds, polls,
          cancels, findCalls, pollCalls, cancelCalls,
          isOpen, prevIsOpen, githubUrl, modalState, modalError, result,
          completeCalls, completePending, onCompleteCalls, submits>>

\* the variables of the chat hook
chatVars == <<mounted, matchId, messages, isConnected, isLoading, error, clientRef,
              reconnectAttemptRef, shouldStopRef, hasConnectedRef, messageIdsRef,
              clients, fetches, timers, created, published, warnings, parseErrors>>

\* the variables of the pages and of the routes
authVars == <<authIsLoading, user, session>>
routeVars == <<location, requested, hops>>
selectVars == <<selectedRole, selectIsLoading, selectPc, updateCalls, errorToasts,
                successToasts, navTimers>>

\* the variables of the Dashboard and of the CompleteSprintModal
dashVars == <<dashboardState, matchStatus, isPolling, dashIsLoading, finds, polls,
              cancels, findCalls, pollCalls, cancelCalls>>
modalVars == <<isOpen, prevIsOpen, githubUrl, modalState, modalError, result,
               completeCalls, completePending, onCompleteCalls, submits>>

appVars == <<authVars, routeVars, selectVars, loads, dashVars, modalVars>>

reactState == <<messages, isConnected, isLoading, error>>
refs == <<clientRef, reconnectAttemptRef, shouldStopRef, hasConnectedRef, messageIdsRef>>
sendVars == <<published, warnings>>

(* ----------------------------- helpers --------------------------------- *)
Min(a, b) == IF a < b THEN a ELSE b

RECURSIVE Pow2(_)
Pow2(n) == IF n = 0 THEN 1 ELSE 2 * Pow2(n - 1)

\* the n-th message of conversation c, as the server stores and sends it
Msg(c, n) == [id |-> <<c, n>>, matchId |-> c]

\* a STOMP MESSAGE frame: a body that is the JSON of a message, or not JSON
JsonFrame(m) == [json |-> TRUE, msg |-> m]
GarbageFrame == [json |-> FALSE, msg |-> Msg(Null, 0)]

Ids(seq) == {seq[i].id : i \in 1..Len(seq)}

ClientIds == 1..Len(clients)
FetchIds == 1..Len(fetches)

\* client.connected of stompjs
Connected(k) == clients[k].st = "connected"

\* the transport of client k is open (a close event can still come)
TransportOpen(k) ==
  clients[k].st \in {"connecting", "reconnecting", "connected", "deactivating", "disconnected"}

\* seq without its i-th element
RemoveAt(seq, i) == [j \in 1..(Len(seq) - 1) |-> IF j < i THEN seq[j] ELSE seq[j + 1]]

\* new Client({...}) followed by client.activate() (useChat.ts:101-106, 182):
\* matchId is the matchId of the closures, st the state of the transport
\* ("connecting" is the first attempt, "reconnecting" an attempt started by
\* the reconnect timer), err whether an ERROR frame arrived on it, inbox
\* the frames in flight to its subscription
NewClient(m) == [matchId |-> m, st |-> "connecting", err |-> FALSE, inbox |-> <<>>]

(* ------------------------------- Init ---------------------------------- *)
\* the state of the pages after the browser loaded the path p
PageLoad(p) ==
  /\ authIsLoading' = TRUE
  /\ user' = NoUser
  /\ location' = p
  /\ requested' = p
  /\ hops' = 0
  /\ selectedRole' = Null
  /\ selectIsLoading' = FALSE
  /\ selectPc' = "idle"
  /\ navTimers' = 0

\* a user with a role is on the dashboard, where the chat panel lives
DashboardShown ==
  /\ authIsLoading = FALSE
  /\ user = "FRONTEND"
  /\ session = "FRONTEND"
  /\ location = "/dashboard"
  /\ requested = "/dashboard"
  /\ hops = 0
  /\ selectedRole = Null
  /\ selectIsLoading = FALSE
  /\ selectPc = "idle"
  /\ updateCalls = <<>>
  /\ errorToasts = 0
  /\ successToasts = 0
  /\ navTimers = 0
  /\ loads = 0

\* the chat panel was never opened: useChat is not mounted
ChatUnmounted ==
  /\ mounted = FALSE
  /\ matchId = Null
  /\ messages = <<>>
  /\ isConnected = FALSE
  /\ isLoading = TRUE
  /\ error = Null
  /\ clientRef = NoClient
  /\ reconnectAttemptRef = 0
  /\ shouldStopRef = FALSE
  /\ hasConnectedRef = FALSE
  /\ messageIdsRef = {}
  /\ clients = <<>>
  /\ fetches = <<>>
  /\ timers = {}
  /\ created = [c \in Conv |-> 0]
  /\ published = <<>>
  /\ warnings = 0
  /\ parseErrors = 0

\* the Dashboard as its useState calls leave it (part_007:21-25)
DashboardIdle ==
  /\ dashboardState = "IDLE"
  /\ matchStatus = Null
  /\ isPolling = FALSE
  /\ dashIsLoading = FALSE
  /\ finds = 0
  /\ polls = 0
  /\ cancels = 0
  /\ findCalls = 0
  /\ pollCalls = 0
  /\ cancelCalls = 0

\* the CompleteSprintModal as its useState calls leave it
\* (CompleteSprintModal.tsx:21-25), closed
ModalClosed ==
  /\ isOpen = FALSE
  /\ prevIsOpen = FALSE
  /\ githubUrl = <<>>
  /\ modalState = "input"
  /\ modalError = Null
  /\ result = NoResult
  /\ completeCalls = <<>>
  /\ completePending = 0
  /\ onCompleteCalls = <<>>
  /\ submits = 0

Init == DashboardShown /\ ChatUnmounted /\ DashboardIdle /\ ModalClosed

\* the browser loads any path, with any session on the server
InitApp ==
  /\ ChatUnmounted
  /\ DashboardIdle
  /\ ModalClosed
  /\ session \in {NoUser, Null} \cup Roles
  /\ requested \in Paths
  /\ location = requested
  /\ authIsLoading = TRUE
  /\ user = NoUser
  /\ hops = 0
  /\ selectedRole = Null
  /\ selectIsLoading = FALSE
  /\ selectPc = "idle"
  /\ updateCalls = <<>>
  /\ errorToasts = 0
  /\ successToasts = 0
  /\ navTimers = 0
  /\ loads = 0

(* ------------------- effect: activation and cleanup -------------------- *)
\* cleanup (useChat.ts:185-191), on the Client of the effect being cleaned
\* up: deactivate() only when the client is connected
CleanupClients ==
  IF matchId # Null /\ Connected(clientRef)
    THEN [clients EXCEPT ![clientRef].st = "deactivating", ![clientRef].inbox = <<>>]
    ELSE clients

\* currentMessageIds.clear() of the cleanup; an effect that returned early
\* (matchId null) registered no cleanup
CleanupMessageIds == IF matchId # Null THEN {} ELSE messageIdsRef

\* loadHistory up to its await (useChat.ts:39-46), called by the effect of
\* the activation act for the matchId m: the pending requests after
\* chatService.getChatHistory(m) was sent.  lo is the number of messages the
\* server had stored when the request was sent
LoadHistorySkipped(m, act) == fetches

LoadHistory(m, act) ==
  Append(fetches, [matchId |-> m, act |-> act, lo |-> created[m]])

\* the effect body (useChat.ts:86-182) for the new matchId m, run on the
\* clients and message ids the cleanup of the previous effect left
Effect(m, cl, ids) ==
  IF m = Null
    THEN /\ isLoading' = FALSE
         /\ clients' = cl
         /\ clientRef' = NoClient
         /\ messageIdsRef' = ids
         /\ UNCHANGED <<error, shouldStopRef, hasConnectedRef, fetches>>
    ELSE /\ isLoading' = TRUE
         /\ error' = Null
         /\ fetches' = LoadHistory(m, Len(cl) + 1)
         /\ shouldStopRef' = FALSE
         /\ hasConnectedRef' = FALSE
         /\ clients' = Append(cl, NewClient(m))
         /\ clientRef' = Len(cl) + 1
         /\ messageIdsRef' = ids

\* first render: the effect runs with the matchId the hook was mounted with
Mount(m) ==
  /\ ~mounted
  /\ mounted' = TRUE
  /\ matchId' = m
  /\ Effect(m, clients, messageIdsRef)
  /\ UNCHANGED <<messages, isConnected, reconnectAttemptRef, timers, created, sendVars, parseErrors, appVars>>

\* a render with a different matchId: cleanup of the previous effect, then
\* the effect body with the new matchId
ChangeMatchId(m) ==
  /\ mounted
  /\ m # matchId
  /\ m # Null => Len(clients) < MaxClients
  /\ matchId' = m
  /\ Effect(m, CleanupClients, CleanupMessageIds)
  /\ UNCHANGED <<mounted, messages, isConnected, reconnectAttemptRef, timers, created, sendVars, parseErrors, appVars>>

(* --------------------------- loadHistory ------------------------------- *)
\* the response of GET /chat/history/{matchId}: the messages the server had
\* stored at some moment between the request and now, chronological
HistoryOf(c, n) == [i \in 1..n |-> Msg(c, i)]

\* loadHistory after the await (useChat.ts:46-49, 53-54): the response of
\* the pending request f arrived with the first n messages
HistoryResolve(f, n) ==
  /\ n \in fetches[f].lo..created[fetches[f].matchId]
  /\ LET history == HistoryOf(fetches[f].matchId, n)
     IN /\ messageIdsRef' = messageIdsRef \cup Ids(history)
        /\ messages' = history
  /\ isLoading' = FALSE
  /\ fetches' = RemoveAt(fetches, f)
  /\ UNCHANGED <<mounted, matchId, isConnected, error, clientRef, reconnectAttemptRef,
                 shouldStopRef, hasConnectedRef, clients, timers, created, sendVars, parseErrors, appVars>>

\* loadHistory after the await (useChat.ts:50-54): the request f failed
HistoryReject(f) ==
  /\ error' = ErrHistory
  /\ isLoading' = FALSE
  /\ fetches' = RemoveAt(fetches, f)
  /\ UNCHANGED <<mounted, matchId, messages, isConnected, refs, clients, timers, created, sendVars, parseErrors, appVars>>

(* ---------------------------- addMessage ------------------------------- *)
AddMessageIds(m) == messageIdsRef \cup {m.id}

\* faulty variant: addMessage appends without looking at the id
AddMessageMessagesAlways(m) == Append(messages, m)

\* useChat.ts:60-64: setMessages of addMessage
AddMessageMessages(m) == IF m.id \in messageIdsRef THEN messages ELSE Append(messages, m)

(* ------------------------ Client callbacks ----------------------------- *)
\* onConnect (useChat.ts:107-123): the CONNECTED frame of client k arrived;
\* the subscription to /topic/match/{matchId} starts with nothing in flight
OnConnect(k) ==
  /\ clients[k].st \in {"connecting", "reconnecting"}
  /\ ~clients[k].err
  /\ clients' = [clients EXCEPT ![k].st = "connected", ![k].inbox = <<>>]
  /\ isConnected' = TRUE
  /\ error' = Null
  /\ reconnectAttemptRef' = 0
  /\ hasConnectedRef' = TRUE
  /\ UNCHANGED <<mounted, matchId, messages, isLoading, clientRef, shouldStopRef,
                 messageIdsRef, fetches, timers, created, sendVars, parseErrors, appVars>>

\* onDisconnect (useChat.ts:125-128): the DISCONNECT of a deactivate() was
\* acknowledged; the transport closes next
OnDisconnect(k) ==
  /\ clients[k].st = "deactivating"
  /\ clients' = [clients EXCEPT ![k].st = "disconnected"]
  /\ isConnected' = FALSE
  /\ UNCHANGED <<mounted, matchId, messages, isLoading, error, refs, fetches, timers,
                 created, sendVars, parseErrors, appVars>>

\* what an ERROR frame can report in its message header
StompErrorKinds == {"auth", "transient"}

\* onStompError (useChat.ts:130-137): the server sent an ERROR frame of the
\* given kind on the open transport of client k; the handler logs the
\* message header and does not branch on it; the server closes the
\* transport after the frame
StompError(k, kind) ==
  /\ clients[k].st \in {"connecting", "reconnecting", "connected"}
  /\ ~clients[k].err
  /\ clients' = [clients EXCEPT ![k].err = TRUE]
  /\ shouldStopRef' = TRUE
  /\ error' = ErrSession
  /\ UNCHANGED <<mounted, matchId, messages, isConnected, isLoading, clientRef,
                 reconnectAttemptRef, hasConnectedRef, messageIdsRef, fetches, timers,
                 created, sendVars, parseErrors, appVars>>

\* onStompError on an ERROR frame of any kind
OnStompError(k) == \E kind \in StompErrorKinds : StompError(k, kind)

\* faulty variant: the close handler ignores shouldStopRef
CloseNeverReturnsEarly == FALSE

\* useChat.ts:147
CloseReturnsEarly == shouldStopRef

\* faulty variant: the attempt cap is compared with > instead of >=
TooManyFailuresLate(n) == n > MaxReconnectAttempts

\* useChat.ts:159
TooManyFailures(n) == n >= MaxReconnectAttempts

\* useChat.ts:167-170
ReconnectDelay(n) == Min(RECONNECT_DELAY_BASE * Pow2(n), MAX_RECONNECT_DELAY)

\* onWebSocketClose (useChat.ts:143-177): the transport of client k closed
OnWebSocketClose(k) ==
  /\ TransportOpen(k)
  /\ clients' = [clients EXCEPT ![k].st = "closed", ![k].inbox = <<>>]
  /\ isConnected' = FALSE
  /\ IF CloseReturnsEarly
       THEN UNCHANGED <<shouldStopRef, error, reconnectAttemptRef, timers>>
       ELSE IF ~hasConnectedRef
         THEN /\ shouldStopRef' = TRUE
              /\ error' = ErrSession
              /\ UNCHANGED <<reconnectAttemptRef, timers>>
         ELSE /\ reconnectAttemptRef' = reconnectAttemptRef + 1
              /\ IF TooManyFailures(reconnectAttemptRef + 1)
                   THEN /\ shouldStopRef' = TRUE
                        /\ error' = ErrChat
                        /\ UNCHANGED timers
                   ELSE /\ timers' = timers \cup
                             {[client |-> k, delay |-> ReconnectDelay(reconnectAttemptRef + 1)]}
                        /\ UNCHANGED <<shouldStopRef, error>>
  /\ UNCHANGED <<mounted, matchId, messages, isLoading, clientRef, hasConnectedRef,
                 messageIdsRef, fetches, created, sendVars, parseErrors, appVars>>

\* faulty variant: the callback does not look at shouldStopRef
ReconnectTimerIgnoresStop(t) ==
  /\ t \in timers
  /\ timers' = timers \ {t}
  /\ IF clientRef # NoClient
       THEN clients' = [clients EXCEPT ![t.client].st = "reconnecting", ![t.client].err = FALSE]
       ELSE UNCHANGED clients
  /\ UNCHANGED <<mounted, matchId, reactState, refs, fetches, created, sendVars, parseErrors, appVars>>

\* the setTimeout callback (useChat.ts:172-176) scheduled by a close of
\* client t.client: client.activate() starts a new connection attempt
ReconnectTimer(t) ==
  /\ t \in timers
  /\ timers' = timers \ {t}
  /\ IF ~shouldStopRef /\ clientRef # NoClient
       THEN clients' = [clients EXCEPT ![t.client].st = "reconnecting", ![t.client].err = FALSE]
       ELSE UNCHANGED clients
  /\ UNCHANGED <<mounted, matchId, reactState, refs, fetches, created, sendVars, parseErrors, appVars>>

(* ------------------------- live subscription --------------------------- *)
\* the server stores the next message of conversation c, unless it stores
\* cap messages already, and broadcasts it to every client subscribed to
\* /topic/match/c
Broadcast(c, cap) ==
  /\ created[c] < cap
  /\ created' = [created EXCEPT ![c] = @ + 1]
  /\ clients' = [k \in ClientIds |->
                   IF Connected(k) /\ clients[k].matchId = c
                     THEN [clients[k] EXCEPT !.inbox = Append(@, JsonFrame(Msg(c, created[c] + 1)))]
                     ELSE clients[k]]
  /\ UNCHANGED <<mounted, matchId, reactState, refs, fetches, timers, sendVars, parseErrors, appVars>>

\* the server stores the next message of conversation c and broadcasts it
\* to every client subscribed to /topic/match/c
ServerBroadcast(c) == Broadcast(c, MaxMsgs)

\* a frame whose body is not JSON reaches the subscription of client k
ServerGarbage(k) ==
  /\ Connected(k)
  /\ parseErrors < MaxGarbage
  /\ \A j \in ClientIds : \A i \in 1..Len(clients[j].inbox) : clients[j].inbox[i].json
  /\ clients' = [clients EXCEPT ![k].inbox = Append(@, GarbageFrame)]
  /\ UNCHANGED <<mounted, matchId, reactState, refs, fetches, timers, created, sendVars, parseErrors, appVars>>

\* faulty variant: the newest frame in flight is delivered first
DeliveredFrameNewest(k) == clients[k].inbox[Len(clients[k].inbox)]

\* the frame the transport hands to the subscribe callback of client k:
\* the oldest in flight
DeliveredFrame(k) == Head(clients[k].inbox)

\* faulty variant: the catch block empties the list of messages
DropFrameMessagesReset == <<>>

\* useChat.ts:119-121: the catch block logs and assigns nothing
DropFrameMessages == messages

\* the subscribe callback (useChat.ts:115-122) on the next frame of client k:
\* JSON.parse throws on a body that is not JSON and the catch drops the frame
OnMessage(k) ==
  /\ Connected(k)
  /\ clients[k].inbox # <<>>
  /\ clients' = [clients EXCEPT ![k].inbox = Tail(@)]
  /\ LET frame == DeliveredFrame(k)
     IN IF frame.json
          THEN /\ messageIdsRef' = AddMessageIds(frame.msg)
               /\ messages' = AddMessageMessages(frame.msg)
               /\ UNCHANGED parseErrors
          ELSE /\ parseErrors' = parseErrors + 1
               /\ messages' = DropFrameMessages
               /\ UNCHANGED messageIdsRef
  /\ UNCHANGED <<mounted, matchId, isConnected, isLoading, error, clientRef,
                 reconnectAttemptRef, shouldStopRef, hasConnectedRef, fetches, timers,
                 created, sendVars, appVars>>

(* ---------------------------- sendMessage ------------------------------ *)
\* faulty variant: the guard does not look at client.connected
SendGuardNoConnected == clientRef # NoClient /\ matchId # Null

\* useChat.ts:69: the negation of the early-return condition
SendGuard == clientRef # NoClient /\ Connected(clientRef) /\ matchId # Null

\* useChat.ts:74-82: the frame handed to client.publish
SendFrame(content) ==
  [destination |-> SendDestination, body |-> [matchId |-> matchId, content |-> content]]

\* faulty variant: sendMessage shows an optimistic local copy of the message
MessagesAfterSendOptimistic(content) == Append(messages, [id |-> <<matchId, 0>>, matchId |-> matchId])

\* useChat.ts:68-83: sendMessage assigns no state and no ref
MessagesAfterSend(content) == messages

SendMessage(content) ==
  /\ mounted
  /\ Len(published) + warnings < MaxSends
  /\ IF SendGuard
       THEN /\ published' = Append(published, SendFrame(content))
            /\ UNCHANGED warnings
       ELSE /\ warnings' = warnings + 1
            /\ UNCHANGED published
  /\ messages' = MessagesAfterSend(content)
  /\ UNCHANGED <<mounted, matchId, isConnected, isLoading, error, refs, clients, fetches,
                 timers, created, parseErrors, appVars>>

(* ------------------------ AuthProvider and routes ---------------------- *)
\* AuthContext value isAuthenticated: !!user
isAuthenticated == user # NoUser

\* checkAuth (AuthProvider effect): getMe resolved with the user of the session
CheckAuthResolve ==
  /\ authIsLoading
  /\ session # NoUser
  /\ user' = session
  /\ authIsLoading' = FALSE
  /\ UNCHANGED <<chatVars, dashVars, modalVars, session, routeVars, selectVars, loads>>

\* checkAuth: getMe rejected (no session, or the request failed)
CheckAuthReject ==
  /\ authIsLoading
  /\ user' = NoUser
  /\ authIsLoading' = FALSE
  /\ UNCHANGED <<chatVars, dashVars, modalVars, session, routeVars, selectVars, loads>>

\* the redirect effect of the Login page: the path it navigates to
LoginRedirect ==
  IF isAuthenticated
    THEN IF user = Null THEN "/role-select" ELSE "/dashboard"
    ELSE "/login"

\* faulty variant: the wrapper never looks at the role
ProtectedRouteAnyRole(requireRole) ==
  IF ~isAuthenticated THEN "/login" ELSE location

\* ProtectedRoute: the path it redirects to, or the location when it
\* renders its children
ProtectedRoute(requireRole) ==
  IF ~isAuthenticated
    THEN "/login"
    ELSE IF requireRole /\ user = Null THEN "/role-select" ELSE location

\* RoleSelectRoute: the path it redirects to, or the location when it
\* renders its children
RoleSelectRoute ==
  IF ~isAuthenticated
    THEN "/login"
    ELSE IF user # Null THEN "/dashboard" ELSE location

\* the <Routes> table of App: where the element of the current location
\* sends the router; the location itself when the page is rendered
RouteTarget ==
  CASE location = "/login" -> LoginRedirect
    [] location = "/role-select" -> RoleSelectRoute
    [] location = "/dashboard" -> ProtectedRoute(TRUE)
    [] OTHER -> "/login"

\* the router follows a <Navigate> or the navigate() of the Login effect;
\* AuthProvider renders no route while it is loading
Redirect ==
  /\ ~authIsLoading
  /\ RouteTarget # location
  /\ hops < MaxHops
  /\ location' = RouteTarget
  /\ hops' = hops + 1
  /\ UNCHANGED <<chatVars, dashVars, modalVars, authVars, requested, selectVars, loads>>

\* the session of the user ends on the server
SessionExpire ==
  /\ session # NoUser
  /\ session' = NoUser
  /\ UNCHANGED <<chatVars, dashVars, modalVars, authIsLoading, user, routeVars, selectVars, loads>>

\* the browser loads the path p again: every component state is new and
\* the pending callbacks of the old page are gone
Reload(p) ==
  /\ loads < MaxLoads
  /\ loads' = loads + 1
  /\ PageLoad(p)
  /\ UNCHANGED <<chatVars, dashVars, modalVars, session, updateCalls, errorToasts, successToasts>>

(* ------------------------------ RoleSelect ----------------------------- *)
\* the RoleSelect page is rendered
RoleSelectShown == ~authIsLoading /\ location = "/role-select" /\ RouteTarget = location

\* handleSelectRole up to its first await (RoleSelect.tsx:75-98); the
\* cards are disabled while isLoading
SelectRole(role) ==
  /\ RoleSelectShown
  /\ ~selectIsLoading
  /\ Len(updateCalls) < MaxSelects
  /\ selectedRole' = role
  /\ selectIsLoading' = TRUE
  /\ updateCalls' = Append(updateCalls, role)
  /\ selectPc' = "updateRole"
  /\ UNCHANGED <<chatVars, dashVars, modalVars, authVars, routeVars, errorToasts, successToasts, navTimers, loads>>

\* PATCH /users/me/role succeeded: the server stored the role, and
\* handleSelectRole calls refreshUser (RoleSelect.tsx:98-99)
UpdateRoleResolve ==
  /\ selectPc = "updateRole"
  /\ session # NoUser
  /\ session' = updateCalls[Len(updateCalls)]
  /\ selectPc' = "refreshUser"
  /\ UNCHANGED <<chatVars, dashVars, modalVars, authIsLoading, user, routeVars, selectedRole, selectIsLoading,
                 updateCalls, errorToasts, successToasts, navTimers, loads>>

\* PATCH /users/me/role failed: catch and finally (RoleSelect.tsx:127-148)
UpdateRoleReject ==
  /\ selectPc = "updateRole"
  /\ errorToasts' = errorToasts + 1
  /\ selectedRole' = Null
  /\ selectIsLoading' = FALSE
  /\ selectPc' = "idle"
  /\ UNCHANGED <<chatVars, dashVars, modalVars, authVars, routeVars, updateCalls, successToasts, navTimers, loads>>

\* handleSelectRole after await refreshUser() (RoleSelect.tsx:101-126, 146-148)
AfterRefreshUser ==
  /\ successToasts' = successToasts + 1
  /\ navTimers' = navTimers + 1
  /\ selectIsLoading' = FALSE
  /\ selectPc' = "idle"
  /\ UNCHANGED <<selectedRole, updateCalls, errorToasts>>

\* refreshUser: getMe resolved, setUser(userData)
RefreshUserResolve ==
  /\ selectPc = "refreshUser"
  /\ session # NoUser
  /\ user' = session
  /\ hops' = 0
  /\ AfterRefreshUser
  /\ UNCHANGED <<chatVars, dashVars, modalVars, authIsLoading, session, location, requested, loads>>

\* refreshUser: getMe rejected; the catch does setUser(null) and returns
\* null, so the await in handleSelectRole does not throw
RefreshUserReject ==
  /\ selectPc = "refreshUser"
  /\ user' = NoUser
  /\ hops' = 0
  /\ AfterRefreshUser
  /\ UNCHANGED <<chatVars, dashVars, modalVars, authIsLoading, session, location, requested, loads>>

\* the setTimeout callback of handleSelectRole: navigate('/dashboard')
NavTimer ==
  /\ navTimers > 0
  /\ navTimers' = navTimers - 1
  /\ location' = "/dashboard"
  /\ hops' = 0
  /\ UNCHANGED <<chatVars, dashVars, modalVars, authVars, requested, selectedRole, selectIsLoading, selectPc,
                 updateCalls, errorToasts, successToasts, loads>>

(* ------------------------------- Next ---------------------------------- *)
Next ==
  \/ \E m \in Conv \cup {Null} : Mount(m)
  \/ \E m \in Conv \cup {Null} : ChangeMatchId(m)
  \/ \E f \in FetchIds : \E n \in 0..MaxMsgs : HistoryResolve(f, n)
  \/ \E f \in FetchIds : HistoryReject(f)
  \/ \E k \in ClientIds : OnConnect(k)
  \/ \E k \in ClientIds : OnDisconnect(k)
  \/ \E k \in ClientIds : OnStompError(k)
  \/ \E k \in ClientIds : OnWebSocketClose(k)
  \/ \E t \in timers : ReconnectTimer(t)
  \/ \E c \in Conv : ServerBroadcast(c)
  \/ \E k \in ClientIds : ServerGarbage(k)
  \/ \E k \in ClientIds : OnMessage(k)
  \/ \E content \in Content : SendMessage(content)

Spec == Init /\ [][Next]_vars

\* the connection lifecycle alone.  The history responses, the message
\* traffic and sendMessage write messages, messageIdsRef, isLoading, error,
\* fetches, created, the inboxes, published and warnings only, and no
\* action below reads any of these, so leaving them out removes no
\* behaviour of the connection state
NextLife ==
  \/ \E m \in Conv \cup {Null} : Mount(m)
  \/ \E m \in Conv \cup {Null} : ChangeMatchId(m)
  \/ \E k \in ClientIds : OnConnect(k)
  \/ \E k \in ClientIds : OnDisconnect(k)
  \/ \E k \in ClientIds : OnStompError(k)
  \/ \E k \in ClientIds : OnWebSocketClose(k)
  \/ \E t \in timers : ReconnectTimer(t)

SpecLife == Init /\ [][NextLife]_vars

\* the connection lifecycle with timers that fire: a pending setTimeout
\* callback runs when its delay has elapsed
SpecLifeFair == SpecLife /\ WF_vars(\E t \in timers : ReconnectTimer(t))

\* one activation only: the hook is mounted and its matchId may become null
NextOne == NextLife /\ Len(clients') <= 1

SpecOne == Init /\ [][NextOne]_vars

\* the connection lifecycle with the history responses and the messages
NextMsg ==
  \/ NextLife
  \/ \E f \in FetchIds : \E n \in 0..MaxMsgs : HistoryResolve(f, n)
  \/ \E f \in FetchIds : HistoryReject(f)
  \/ \E c \in Conv : ServerBroadcast(c)
  \/ \E k \in ClientIds : ServerGarbage(k)
  \/ \E k \in ClientIds : OnMessage(k)

SpecMsg == Init /\ [][NextMsg]_vars

\* the connection lifecycle with sendMessage, which reads clientRef, the
\* connected flag of that client and matchId only
NextSend ==
  /\ \/ NextLife
     \/ \E content \in Content : SendMessage(content)
  /\ Len(clients') <= MaxSendClients

SpecSend == Init /\ [][NextSend]_vars

\* the subscription of one activation: the lifecycle and the frames of the
\* topic.  The history responses write messages,
\* messageIdsRef, isLoading, error and fetches only and enable or disable
\* no action below
NextFrame ==
  /\ \/ NextLife
     \/ \E c \in Conv : ServerBroadcast(c)
     \/ \E k \in ClientIds : ServerGarbage(k)
     \/ \E k \in ClientIds : OnMessage(k)
  /\ Len(clients') <= 1

SpecFrame == Init /\ [][NextFrame]_vars

\* the history and the live messages of one activation
NextHist ==
  /\ \/ NextLife
     \/ \E f \in FetchIds : \E n \in 0..MaxHistMsgs : HistoryResolve(f, n)
     \/ \E f \in FetchIds : HistoryReject(f)
     \/ \E c \in Conv : Broadcast(c, MaxHistMsgs)
     \/ \E k \in ClientIds : OnMessage(k)
  /\ Len(clients') <= 1

SpecHist == Init /\ [][NextHist]_vars

\* the pages: authentication, routes and the role selection
NextApp ==
  \/ CheckAuthResolve
  \/ CheckAuthReject
  \/ Redirect
  \/ SessionExpire
  \/ \E p \in Paths : Reload(p)
  \/ \E role \in Roles : SelectRole(role)
  \/ UpdateRoleResolve
  \/ UpdateRoleReject
  \/ RefreshUserResolve
  \/ RefreshUserReject
  \/ NavTimer

SpecApp == InitApp /\ [][NextApp]_vars

(* ------------------------------ Dashboard ------------------------------ *)
\* the status field of the MatchStatus that POST /matches/find answers
\* (types.ts:19)
Statuses == {"WAITING", "MATCHED"}

\* Dashboard renders the WelcomeView (part_007:418-437)
WelcomeViewShown == ~(dashboardState = "MATCHED" /\ matchStatus # Null)

\* the Find Partner button is rendered and enabled (part_007:612, 631-634)
FindButtonEnabled ==
  /\ WelcomeViewShown
  /\ dashboardState # "WAITING"
  /\ ~dashIsLoading
  /\ user \in Roles

\* the Cancel Waiting button is rendered (part_007:612-627)
CancelButtonShown == WelcomeViewShown /\ dashboardState = "WAITING"

\* handleFindMatch up to its await (part_007:150-155)
HandleFindMatch ==
  /\ FindButtonEnabled
  /\ findCalls < MaxFinds
  /\ dashIsLoading' = TRUE
  /\ finds' = finds + 1
  /\ findCalls' = findCalls + 1
  /\ UNCHANGED <<chatVars, authVars, routeVars, selectVars, loads, modalVars,
                 dashboardState, matchStatus, isPolling, polls, cancels, pollCalls, cancelCalls>>

\* handleFindMatch after the await (part_007:155-194, 207-209): the server
\* answered status
FindMatchResolve(status) ==
  /\ finds > 0
  /\ finds' = finds - 1
  /\ matchStatus' = status
  /\ IF status = "MATCHED"
       THEN /\ dashboardState' = "MATCHED"
            /\ UNCHANGED isPolling
       ELSE /\ dashboardState' = "WAITING"
            /\ isPolling' = TRUE
  /\ dashIsLoading' = FALSE
  /\ UNCHANGED <<chatVars, authVars, routeVars, selectVars, loads, modalVars,
                 polls, cancels, findCalls, pollCalls, cancelCalls>>

\* handleFindMatch after the await (part_007:195-209): the request failed
FindMatchReject ==
  /\ finds > 0
  /\ finds' = finds - 1
  /\ dashIsLoading' = FALSE
  /\ UNCHANGED <<chatVars, authVars, routeVars, selectVars, loads, modalVars,
                 dashboardState, matchStatus, isPolling, polls, cancels, findCalls,
                 pollCalls, cancelCalls>>

\* the polling effect has its interval running (part_007:105-108, 147-148):
\* the effect returns early otherwise, and its cleanup clears the interval
\* when isPolling or dashboardState changes
PollIntervalRunning == isPolling /\ dashboardState = "WAITING"

\* a tick of the interval, up to the await (part_007:108-110)
PollTick ==
  /\ PollIntervalRunning
  /\ pollCalls < MaxPolls
  /\ polls' = polls + 1
  /\ pollCalls' = pollCalls + 1
  /\ UNCHANGED <<chatVars, authVars, routeVars, selectVars, loads, modalVars,
                 dashboardState, matchStatus, isPolling, dashIsLoading, finds, cancels,
                 findCalls, cancelCalls>>

\* the interval callback after the await (part_007:110-141): the server
\* answered status
PollResolve(status) ==
  /\ polls > 0
  /\ polls' = polls - 1
  /\ matchStatus' = status
  /\ IF status = "MATCHED"
       THEN /\ dashboardState' = "MATCHED"
            /\ isPolling' = FALSE
       ELSE UNCHANGED <<dashboardState, isPolling>>
  /\ UNCHANGED <<chatVars, authVars, routeVars, selectVars, loads, modalVars,
                 dashIsLoading, finds, cancels, findCalls, pollCalls, cancelCalls>>

\* the interval callback after the await (part_007:142-144): the request
\* failed
PollReject ==
  /\ polls > 0
  /\ polls' = polls - 1
  /\ UNCHANGED <<chatVars, authVars, routeVars, selectVars, loads, modalVars,
                 dashboardState, matchStatus, isPolling, dashIsLoading, finds, cancels,
                 findCalls, pollCalls, cancelCalls>>

\* handleCancelWaiting up to its await (part_007:212-214)
HandleCancelWaiting ==
  /\ CancelButtonShown
  /\ cancelCalls < MaxCancels
  /\ cancels' = cancels + 1
  /\ cancelCalls' = cancelCalls + 1
  /\ UNCHANGED <<chatVars, authVars, routeVars, selectVars, loads, modalVars,
                 dashboardState, matchStatus, isPolling, dashIsLoading, finds, polls,
                 findCalls, pollCalls>>

\* handleCancelWaiting after the await (part_007:215-218): the server left
\* the queue
CancelResolve ==
  /\ cancels > 0
  /\ cancels' = cancels - 1
  /\ matchStatus' = Null
  /\ dashboardState' = "IDLE"
  /\ isPolling' = FALSE
  /\ UNCHANGED <<chatVars, authVars, routeVars, selectVars, loads, modalVars,
                 dashIsLoading, finds, polls, findCalls, pollCalls, cancelCalls>>

\* handleCancelWaiting after the await (part_007:230-233): the request
\* failed
CancelReject ==
  /\ cancels > 0
  /\ cancels' = cancels - 1
  /\ UNCHANGED <<chatVars, authVars, routeVars, selectVars, loads, modalVars,
                 dashboardState, matchStatus, isPolling, dashIsLoading, finds, polls,
                 findCalls, pollCalls, cancelCalls>>

\* the Dashboard: the search for a partner, the polling and the cancel
NextDash ==
  \/ HandleFindMatch
  \/ \E status \in Statuses : FindMatchResolve(status)
  \/ FindMatchReject
  \/ PollTick
  \/ \E status \in Statuses : PollResolve(status)
  \/ PollReject
  \/ HandleCancelWaiting
  \/ CancelResolve
  \/ CancelReject

SpecDash == Init /\ [][NextDash]_vars

(* ------------------------- CompleteSprintModal ------------------------- *)
\* the error texts of the modal
ErrUrlRequired == "GitHub repository URL is required"
ErrUrlInvalid == "Please enter a valid GitHub repository URL (e.g., https://github.com/user/repo)"
ErrCompleteFailed == "Failed to complete sprint. Please try again."

\* what the user types into the url field: a string, as the sequence of
\* its pieces
Urls ==
  { <<>>,
    <<" ">>,
    <<"https:", "//", "github.com", "/", "u", "/", "r">>,
    <<" ", "http:", "//", "github.com", "/", "u", "/", "r", "/", " ">>,
    <<"https:", "//", "github.com", "/", "u">>,
    <<"https:", "//", "gitlab.com", "/", "u", "/", "r">>,
    <<"https:", "//", "gitlab.com", "/", "github.com", "/", "r">>,
    <<"github.com", "/", "u", "/", "r">> }

\* String.prototype.trim: the string without its leading and trailing
\* white space
RECURSIVE Trim(_)
Trim(u) ==
  IF u = <<>> THEN u
  ELSE IF Head(u) = " " THEN Trim(Tail(u))
  ELSE IF u[Len(u)] = " " THEN Trim(SubSeq(u, 1, Len(u) - 1))
  ELSE u

\* the piece holds a slash
HasSlash(t) == t \in {"/", "//"}

\* validateUrl (CompleteSprintModal.tsx:49-52), the test of
\* /^https?:\/\/github\.com\/[^/]+\/[^/]+\/?.*$/
validateUrl(u) ==
  /\ Len(u) >= 4
  /\ u[1] \in {"http:", "https:"}
  /\ u[2] = "//"
  /\ u[3] = "github.com"
  /\ u[4] = "/"
  /\ \E i \in 5..Len(u) :
       /\ \A j \in 5..i : ~HasSlash(u[j])
       /\ i + 2 <= Len(u)
       /\ u[i + 1] = "/"
       /\ ~HasSlash(u[i + 2])

\* the render after isOpen changed (CompleteSprintModal.tsx:27-36): the
\* state is reset when the modal opens, and prevIsOpen follows isOpen
RenderModal ==
  /\ IF isOpen' /\ ~prevIsOpen
       THEN /\ githubUrl' = <<>>
            /\ modalState' = "input"
            /\ modalError' = Null
            /\ result' = NoResult
       ELSE UNCHANGED <<githubUrl, modalState, modalError, result>>
  /\ prevIsOpen' = isOpen'

\* Dashboard sets isCompleteModalOpen (part_007:236-239, 511)
OpenModal ==
  /\ ~isOpen
  /\ isOpen' = TRUE
  /\ RenderModal
  /\ UNCHANGED <<chatVars, authVars, routeVars, selectVars, loads, dashVars,
                 completeCalls, completePending, onCompleteCalls, submits>>

\* onClose of the Dashboard (part_007:512), and the render that follows
OnClose ==
  /\ isOpen' = FALSE
  /\ RenderModal

\* the input of the form (CompleteSprintModal.tsx:161-165)
TypeUrl(u) ==
  /\ isOpen
  /\ modalState = "input"
  /\ u # githubUrl
  /\ githubUrl' = u
  /\ UNCHANGED <<chatVars, authVars, routeVars, selectVars, loads, dashVars,
                 isOpen, prevIsOpen, modalState, modalError, result,
                 completeCalls, completePending, onCompleteCalls, submits>>

\* handleEscape (CompleteSprintModal.tsx:40-44) calls onClose
EscapeClosesAnyState == isOpen

EscapeCloses == isOpen /\ modalState = "input"

\* the Escape key is pressed
Escape ==
  /\ IF EscapeCloses
       THEN OnClose
       ELSE UNCHANGED <<isOpen, prevIsOpen, githubUrl, modalState, modalError, result>>
  /\ UNCHANGED <<chatVars, authVars, routeVars, selectVars, loads, dashVars,
                 completeCalls, completePending, onCompleteCalls, submits>>

\* a click on the backdrop (CompleteSprintModal.tsx:117-120)
BackdropClick ==
  /\ isOpen
  /\ IF modalState = "input"
       THEN OnClose
       ELSE UNCHANGED <<isOpen, prevIsOpen, githubUrl, modalState, modalError, result>>
  /\ UNCHANGED <<chatVars, authVars, routeVars, selectVars, loads, dashVars,
                 completeCalls, completePending, onCompleteCalls, submits>>

\* a click on the close button of the header or on Cancel, both rendered
\* in input only (CompleteSprintModal.tsx:136-143, 180-186)
CloseButton ==
  /\ isOpen
  /\ modalState = "input"
  /\ OnClose
  /\ UNCHANGED <<chatVars, authVars, routeVars, selectVars, loads, dashVars,
                 completeCalls, completePending, onCompleteCalls, submits>>

\* handleSubmit up to its await (CompleteSprintModal.tsx:54-72); the form
\* is rendered in input only
HandleSubmit ==
  /\ isOpen
  /\ modalState = "input"
  /\ submits < MaxSubmits
  /\ submits' = submits + 1
  /\ IF Trim(githubUrl) = <<>>
       THEN /\ modalError' = ErrUrlRequired
            /\ UNCHANGED <<modalState, completeCalls, completePending>>
       ELSE IF ~validateUrl(Trim(githubUrl))
         THEN /\ modalError' = ErrUrlInvalid
              /\ UNCHANGED <<modalState, completeCalls, completePending>>
         ELSE /\ modalError' = Null
              /\ modalState' = "analyzing"
              /\ completeCalls' = Append(completeCalls, Trim(githubUrl))
              /\ completePending' = completePending + 1
  /\ UNCHANGED <<chatVars, authVars, routeVars, selectVars, loads, dashVars,
                 isOpen, prevIsOpen, githubUrl, result, onCompleteCalls>>

\* the MatchCompletion the server answers for the last request
Completions ==
  IF completeCalls = <<>> THEN {}
  ELSE {[repoUrl |-> completeCalls[Len(completeCalls)], reviewed |-> r] : r \in BOOLEAN}

\* handleSubmit after the await (CompleteSprintModal.tsx:72-74): the server
\* answered completionResult
CompleteResolve(completionResult) ==
  /\ completePending > 0
  /\ completePending' = completePending - 1
  /\ result' = completionResult
  /\ modalState' = "result"
  /\ UNCHANGED <<chatVars, authVars, routeVars, selectVars, loads, dashVars,
                 isOpen, prevIsOpen, githubUrl, modalError, completeCalls,
                 onCompleteCalls, submits>>

\* handleSubmit after the await (CompleteSprintModal.tsx:75-88): the
\* request failed
CompleteReject ==
  /\ completePending > 0
  /\ completePending' = completePending - 1
  /\ modalState' = "input"
  /\ modalError' = ErrCompleteFailed
  /\ UNCHANGED <<chatVars, authVars, routeVars, selectVars, loads, dashVars,
                 isOpen, prevIsOpen, githubUrl, result, completeCalls,
                 onCompleteCalls, submits>>

\* handleDone (CompleteSprintModal.tsx:91-96); the Done button is rendered
\* in result only
HandleDone ==
  /\ isOpen
  /\ modalState = "result"
  /\ onCompleteCalls' = IF result # NoResult THEN Append(onCompleteCalls, result)
                                             ELSE onCompleteCalls
  /\ OnClose
  /\ UNCHANGED <<chatVars, authVars, routeVars, selectVars, loads, dashVars,
                 completeCalls, completePending, submits>>

\* the CompleteSprintModal and the Dashboard that opens it
NextModal ==
  \/ OpenModal
  \/ \E u \in Urls : TypeUrl(u)
  \/ Escape
  \/ BackdropClick
  \/ CloseButton
  \/ HandleSubmit
  \/ \E c \in Completions : CompleteResolve(c)
  \/ CompleteReject
  \/ HandleDone

SpecModal == Init /\ [][NextModal]_vars

TypeOK ==
  /\ mounted \in BOOLEAN
  /\ matchId \in Conv \cup {Null}
  /\ isConnected \in BOOLEAN
  /\ isLoading \in BOOLEAN
  /\ error \in {Null, ErrHistory, ErrSession, ErrChat}
  /\ clientRef \in {NoClient} \cup ClientIds
  /\ reconnectAttemptRef \in 0..MaxReconnectAttempts
  /\ shouldStopRef \in BOOLEAN
  /\ hasConnectedRef \in BOOLEAN
  /\ Len(clients) <= MaxClients
  /\ Len(fetches) <= Len(clients)
  /\ (matchId = Null) = (clientRef = NoClient)
  /\ Len(published) + warnings <= MaxSends
  /\ parseErrors \in 0..MaxGarbage
  /\ authIsLoading \in BOOLEAN
  /\ user \in {NoUser, Null} \cup Roles
  /\ session \in {NoUser, Null} \cup Roles
  /\ location \in Paths
  /\ requested \in Paths
  /\ hops \in 0..MaxHops
  /\ selectedRole \in {Null} \cup Roles
  /\ selectIsLoading \in BOOLEAN
  /\ selectPc \in {"idle", "updateRole", "refreshUser"}
  /\ Len(updateCalls) <= MaxSelects
  /\ navTimers \in 0..MaxSelects
  /\ loads \in 0..MaxLoads
  /\ dashboardState \in {"IDLE", "WAITING", "MATCHED"}
  /\ matchStatus \in {Null} \cup Statuses
  /\ isPolling \in BOOLEAN
  /\ dashIsLoading \in BOOLEAN
  /\ finds \in 0..1
  /\ polls \in 0..MaxPolls
  /\ cancels \in 0..MaxCancels
  /\ findCalls \in 0..MaxFinds
  /\ pollCalls \in 0..MaxPolls
  /\ cancelCalls \in 0..MaxCancels
  /\ isOpen \in BOOLEAN
  /\ prevIsOpen = isOpen
  /\ githubUrl \in Urls
  /\ modalState \in {"input", "analyzing", "result"}
  /\ modalError \in {Null, ErrUrlRequired, ErrUrlInvalid, ErrCompleteFailed}
  /\ completePending \in 0..1
  /\ Len(completeCalls) <= MaxSubmits
  /\ Len(onCompleteCalls) <= Len(completeCalls)
  /\ submits \in 0..MaxSubmits

(* =============================== claims =============================== *)
\* the session of the current activation is Active
Active == clientRef # NoClient /\ clients[clientRef].st = "connected"

\* a close of client k that the hook counts as a retryable failure: the
\* reconnection was not stopped and a handshake had succeeded
RetryableClose(k) == OnWebSocketClose(k) /\ ~shouldStopRef /\ hasConnectedRef

\* C1 (as stated): no message id occurs twice in messages
C1_NoDuplicateIds ==
  \A i, j \in 1..Len(messages) : i # j => messages[i].id # messages[j].id

\* the delays the claim C2 lists for the failures 1..5
ClaimedDelays == <<2000, 4000, 8000, 16000, 30000>>

\* C2 (as stated): the Nth consecutive retryable failure since the last
\* successful connect, N = 1..5, schedules exactly one retry timer with
\* delay min(1000 * 2^N, 30000), that is 2000, 4000, 8000, 16000, 30000 ms
C2_BackoffGrowth ==
  [][\A k \in ClientIds :
       (RetryableClose(k) /\ reconnectAttemptRef + 1 \in 1..5)
         => /\ [client |-> k, delay |-> ClaimedDelays[reconnectAttemptRef + 1]] \notin timers
            /\ timers' = timers \cup
                 {[client |-> k, delay |-> ClaimedDelays[reconnectAttemptRef + 1]]}]_vars

C4_AuthShortCircuit ==
  [][\A k \in ClientIds :
       /\ (OnStompError(k) /\ k = clientRef)
            => /\ shouldStopRef'
               /\ error' = ErrSession
               /\ timers' = timers
               /\ reconnectAttemptRef' = reconnectAttemptRef
       /\ (OnWebSocketClose(k) /\ k = clientRef /\ clients[k].err)
            => (shouldStopRef' /\ timers' = timers)]_vars

\* C4 witness: the current client was rejected with an ERROR frame while
\* it was connecting, its transport closed, and no retry is pending
C4_Witness ==
  /\ clientRef # NoClient
  /\ clients[clientRef].st = "closed"
  /\ clients[clientRef].err
  /\ shouldStopRef
  /\ error = ErrSession
  /\ timers = {}

\* the frame the claim C5 expects for a send of content c
ClaimedFrame(c) ==
  [destination |-> "/app/chat.send", body |-> [matchId |-> matchId, content |-> c]]

\* C5: a sendMessage call publishes exactly the frame {matchId, content} to
\* /app/chat.send when the session is Active and matchId is not null, and
\* publishes nothing (it logs a warning) otherwise
C5_SendOnlyWhileActive ==
  [][/\ \A c \in Content :
          SendMessage(c)
            => IF Active /\ matchId # Null
                 THEN published' = Append(published, ClaimedFrame(c)) /\ warnings' = warnings
                 ELSE published' = published /\ warnings' = warnings + 1
     /\ Len(published') <= Len(published) + 1]_vars

\* C5 witness: sendMessage was called while the hook was activated and its
\* client was not connected, and nothing was published
C5_Witness ==
  /\ warnings > 0
  /\ published = <<>>
  /\ clientRef # NoClient
  /\ ~Connected(clientRef)

\* C6 (as stated): after a step during which no history request of an
\* earlier activation was in flight, messages holds no message of a
\* conversation other than the activated one; and an activation starts
\* with an empty messageIdsRef
C6_ReactivationIsolation ==
  [][/\ (/\ matchId' # Null
         /\ \A f \in FetchIds : fetches[f].act = clientRef'
         /\ \A f \in 1..Len(fetches') : fetches'[f].act = clientRef')
          => \A i \in 1..Len(messages') : messages'[i].matchId = matchId'
     /\ (clientRef' # clientRef /\ clientRef' # NoClient)
          => messageIdsRef' = {}]_vars

\* C7 (as stated): when the transport of the current client closes during
\* its first connection attempt, without an ERROR frame, the reconnection is stopped, the attempt counter keeps its
\* value, no retry timer is scheduled and the session-expired error is set
C7_CloseBeforeHandshake ==
  [][\A k \in ClientIds :
       (/\ OnWebSocketClose(k)
        /\ k = clientRef
        /\ clients[k].st = "connecting"
        /\ ~clients[k].err)
         => /\ shouldStopRef'
            /\ reconnectAttemptRef' = reconnectAttemptRef
            /\ timers' = timers
            /\ error' = ErrSession]_vars

\* C8 (as stated): when the history request of the current activation
\* fails, the error is set and messages holds nothing but messages added
\* in this activation; a connect of the current client that follows the
\* failure leaves an error exposed; and a live message with an unseen id
\* is appended
C8_HistoryFailure ==
  [][/\ \A f \in FetchIds :
          (HistoryReject(f) /\ fetches[f].act = clientRef)
            => /\ error' = ErrHistory
               /\ \A i \in 1..Len(messages') : messages'[i].id \in messageIdsRef'
     /\ \A k \in ClientIds :
          (/\ OnConnect(k)
           /\ k = clientRef
           /\ error = ErrHistory
           /\ \A f \in FetchIds : fetches[f].act # clientRef)
            => error' # Null
     /\ \A k \in ClientIds :
          (/\ OnMessage(k)
           /\ Head(clients[k].inbox).json
           /\ Head(clients[k].inbox).msg.id \notin messageIdsRef)
            => messages' = Append(messages, Head(clients[k].inbox).msg)]_vars

\* C9: sendMessage leaves messages, messageIdsRef, error and isConnected
\* as they are, and no other step (a connect or a reconnect among them)
\* publishes a frame
C9_NoOptimisticCopyNoQueue ==
  [][/\ \A c \in Content :
          SendMessage(c)
            => /\ messages' = messages
               /\ messageIdsRef' = messageIdsRef
               /\ error' = error
               /\ isConnected' = isConnected
     /\ (\A c \in Content : ~SendMessage(c)) => published' = published]_vars

\* C9 witness: a send was dropped, the session is Active afterwards and
\* nothing was published
C9_Witness ==
  /\ warnings > 0
  /\ Active
  /\ matchId # Null
  /\ published = <<>>

\* C10 (as stated): isConnected is true exactly when the client of the
\* current activation is connected
C10_IsConnectedIffActive == isConnected = Active

\* C11: a frame whose body fails to parse is dropped and logged: messages,
\* messageIdsRef, isConnected, error, the stop flag, the timers and the
\* session of the client stay as they are and the frames behind it stay in
\* flight; and a well-formed frame with an unseen id that is delivered
\* after a dropped one is appended
C11_MalformedFrameDropped ==
  [][\A k \in ClientIds :
       /\ (OnMessage(k) /\ ~Head(clients[k].inbox).json)
            => /\ messages' = messages
               /\ messageIdsRef' = messageIdsRef
               /\ isConnected' = isConnected
               /\ error' = error
               /\ shouldStopRef' = shouldStopRef
               /\ timers' = timers
               /\ clientRef' = clientRef
               /\ clients'[k].st = "connected"
               /\ clients'[k].inbox = Tail(clients[k].inbox)
               /\ parseErrors' = parseErrors + 1
       /\ (/\ OnMessage(k)
           /\ parseErrors > 0
           /\ Head(clients[k].inbox).json
           /\ Head(clients[k].inbox).msg.id \notin messageIdsRef)
            => messages' = Append(messages, Head(clients[k].inbox).msg)]_vars

\* C11 witness: a frame was dropped, the session is still Active with no
\* error, and a live message is shown
C11_Witness ==
  /\ parseErrors > 0
  /\ Active
  /\ isConnected
  /\ error = Null
  /\ messages # <<>>
  /\ Ids(messages) \subseteq messageIdsRef

\* C12 (as stated): when the client of the current activation completes
\* the handshake of a retry, a history request of this activation that
\* covers every message the server has stored so far is in flight
C12_HistoryRefetchedOnReconnect ==
  [][\A k \in ClientIds :
       (OnConnect(k) /\ k = clientRef /\ clients[k].st = "reconnecting")
         => \E f \in 1..Len(fetches') :
              /\ fetches'[f].act = clientRef
              /\ fetches'[f].matchId = matchId
              /\ fetches'[f].lo = created[matchId]]_vars

\* the page the claim C13 assigns to the user
ClaimedRoute ==
  IF user = NoUser THEN "/login" ELSE IF user = Null THEN "/role-select" ELSE "/dashboard"

\* C13: once the authentication is loaded and no redirect is left to
\* follow, the router is on /login for no user, on /role-select for a user
\* without a role and on /dashboard for a user with a role, whatever path
\* was requested; and no chain of redirects is longer than two
C13_RouteResolution ==
  /\ (~authIsLoading /\ RouteTarget = location) => location = ClaimedRoute
  /\ hops <= 2

\* C13 witness: /dashboard was requested by a user without a role and the
\* router came to rest on /role-select
C13_Witness ==
  /\ ~authIsLoading
  /\ requested = "/dashboard"
  /\ user = Null
  /\ location = "/role-select"
  /\ RouteTarget = location
  /\ hops = 1
  /\ loads = 0
  /\ updateCalls = <<>>

\* C14 (as stated): a selection calls updateRole with exactly the selected
\* role; a failed update shows an error toast, resets the selected role,
\* ends the loading and schedules no navigation; and a navigation to
\* /dashboard is scheduled by no step other than a refreshUser that
\* succeeded after an updateRole that succeeded
C14_RoleSelection ==
  [][/\ \A role \in Roles :
          SelectRole(role) => updateCalls' = Append(updateCalls, role)
     /\ UpdateRoleReject
          => /\ errorToasts' = errorToasts + 1
             /\ selectedRole' = Null
             /\ ~selectIsLoading'
             /\ navTimers' = navTimers
             /\ location' = location
     /\ navTimers' > navTimers
          => /\ selectPc = "refreshUser"
             /\ user' = session
             /\ user' = updateCalls[Len(updateCalls)]]_vars

\* C15 (as stated): at most one retry timer is pending, and the timer of a
\* client that is not the client of the current activation starts no
\* connection attempt when it fires
C15_SingleTimerCancelled ==
  [][/\ Cardinality(timers') <= 1
     /\ \A t \in timers :
          (ReconnectTimer(t) /\ t.client # clientRef) => clients' = clients]_vars

\* C16 (as stated): at most one client has its transport open or being
\* opened
C16_SingleTransport ==
  Cardinality({k \in ClientIds : TransportOpen(k)}) <= 1

\* C17 (as stated): a client whose activation was deactivated completes no
\* handshake: no onConnect of a client other than the client of the
\* current activation runs, and no such client is connected unless its
\* deactivate() is in progress
C17_DeactivationCloses ==
  [][\A k \in ClientIds :
       k # clientRef => (~OnConnect(k) /\ clients'[k].st # "connected")]_vars

\* the state the claim C18 assigns to the current activation
ActivationState ==
  <<messages, messageIdsRef, reconnectAttemptRef, shouldStopRef, hasConnectedRef,
    isConnected, isLoading, error>>

\* C18 (as stated): while an activation is current, a history response of
\* an earlier activation and a callback of the client of an earlier
\* activation leave the state of the current activation as it is
C18_StaleEventsIgnored ==
  [][clientRef # NoClient =>
       /\ \A f \in FetchIds :
            (/\ fetches[f].act # clientRef
             /\ (HistoryReject(f) \/ \E n \in 0..MaxMsgs : HistoryResolve(f, n)))
              => UNCHANGED ActivationState
       /\ \A k \in ClientIds :
            (/\ k # clientRef
             /\ (\/ OnConnect(k) \/ OnDisconnect(k) \/ OnStompError(k)
                 \/ OnWebSocketClose(k) \/ OnMessage(k)))
              => UNCHANGED ActivationState]_vars

\* C19: while the reconnection is stopped and the activation stays the
\* same, it stays stopped, no retry timer is scheduled and no client starts
\* a connection attempt
C19_FailedPermanentTerminal ==
  [][(shouldStopRef /\ clientRef' = clientRef)
       => /\ shouldStopRef'
          /\ timers' \subseteq timers
          /\ Len(clients') = Len(clients)
          /\ \A k \in ClientIds :
               clients'[k].st \in {"connecting", "reconnecting"}
                 => clients'[k].st = clients[k].st]_vars

\* C19 witness: the transport of the current client closed before its
\* first handshake and stopped the reconnection after an earlier failure
\* had been counted; no retry is pending and no transport is open
C19_Witness ==
  /\ clientRef # NoClient
  /\ clients[clientRef].st = "closed"
  /\ ~clients[clientRef].err
  /\ shouldStopRef
  /\ error = ErrSession
  /\ reconnectAttemptRef > 0
  /\ timers = {}
  /\ \A k \in ClientIds : clients[k].st = "closed"

\* C20 (as stated): every onConnect resets the attempt counter to 0, and
\* the close of the Active client of the current activation, which is the
\* first failure since its last successful connect, is counted as failure
\* number 1 and schedules the retry with the delay of failure number 1
C20_CounterResetOnActive ==
  [][\A k \in ClientIds :
       /\ OnConnect(k) => reconnectAttemptRef' = 0
       /\ (RetryableClose(k) /\ k = clientRef /\ Connected(k))
            => /\ reconnectAttemptRef' = 1
               /\ timers' = timers \cup {[client |-> k, delay |-> ReconnectDelay(1)]}]_vars

\* C21 (as stated): a live delivery of an id that is already visible
\* leaves messages as it is, and a history response of the current
\* activation leaves every visible message whose id it carries at the
\* position it has
C21_FirstArrivalKeepsPosition ==
  [][/\ \A k \in ClientIds :
          (/\ OnMessage(k)
           /\ Head(clients[k].inbox).json
           /\ Head(clients[k].inbox).msg.id \in Ids(messages))
            => messages' = messages
     /\ \A f \in FetchIds : \A n \in 0..MaxHistMsgs :
          (HistoryResolve(f, n) /\ fetches[f].act = clientRef)
            => \A i \in 1..Len(messages) :
                 messages[i].id \in Ids(HistoryOf(fetches[f].matchId, n))
                   => (i <= Len(messages') /\ messages'[i] = messages[i])]_vars

\* C22 (as stated): while the activation stays the same, messages only
\* grows at its tail: every visible message stays at its position
C22_AppendOnly ==
  [][(clientRef # NoClient /\ clientRef' = clientRef)
       => /\ Len(messages') >= Len(messages)
          /\ \A i \in 1..Len(messages) : messages'[i] = messages[i]]_vars

\* C23: a history response puts every returned id into messageIdsRef and
\* the returned messages at the head of messages in the returned order;
\* while the activation stays the same no id leaves messageIdsRef; and a
\* live delivery of an id in messageIdsRef leaves messages as it is
C23_HistorySuccess ==
  [][/\ \A f \in FetchIds : \A n \in 0..MaxHistMsgs :
          HistoryResolve(f, n)
            => /\ Ids(HistoryOf(fetches[f].matchId, n)) \subseteq messageIdsRef'
               /\ Len(messages') >= n
               /\ \A i \in 1..n : messages'[i] = HistoryOf(fetches[f].matchId, n)[i]
     /\ clientRef' = clientRef => messageIdsRef \subseteq messageIdsRef'
     /\ \A k \in ClientIds :
          (/\ OnMessage(k)
           /\ Head(clients[k].inbox).json
           /\ Head(clients[k].inbox).msg.id \in messageIdsRef)
            => messages' = messages]_vars

\* C23 witness: the history of two messages was shown, the live copy of
\* the first was consumed and the live copy of the second is still to come
C23_Witness ==
  /\ clientRef # NoClient
  /\ fetches = <<>>
  /\ messages = HistoryOf(matchId, 2)
  /\ messageIdsRef = Ids(messages)
  /\ Connected(clientRef)
  /\ clients[clientRef].inbox = <<JsonFrame(Msg(matchId, 2))>>

C25_TransientErrorRetried ==
  [][\A k \in ClientIds :
       (/\ StompError(k, "transient")
        /\ k = clientRef
        /\ hasConnectedRef
        /\ ~shouldStopRef)
         => (~shouldStopRef' /\ error' # ErrSession)]_vars

\* the client k of the current activation is Failed-Retryable: its
\* transport closed after a handshake and its retry timer is pending
FailedRetryable(k) ==
  /\ k \in ClientIds
  /\ k = clientRef
  /\ clients[k].st = "closed"
  /\ \E t \in timers : t.client = k

\* the retry of client k started a connection attempt
RetryStarted(k) == k \in ClientIds /\ clients[k].st = "reconnecting"

\* C26 (as stated): when the client of the current activation is
\* Failed-Retryable, its retry starts a connection attempt or the
\* activation is deactivated
C26_RetryEventuallyAttempts ==
  \A k \in 1..MaxClients : FailedRetryable(k) ~> (RetryStarted(k) \/ clientRef # k)


\* the activations that have a history request pending
PendingActs(fs) == {fs[i].act : i \in 1..Len(fs)}

FetchInFlight == \E f \in FetchIds : fetches[f].act = clientRef

\* C28: once the hook is mounted, isLoading is true exactly while the
\* history request of the current activation is pending; with a null
\* matchId there is no activation and isLoading is false
C28_LoadingWhileFetching ==
  mounted => (isLoading <=> (matchId # Null /\ FetchInFlight))

\* the dashboard is idle: IDLE, no match status, no search in progress
DashIdle == dashboardState = "IDLE" /\ matchStatus = Null /\ ~dashIsLoading

\* C29: the poll interval sends a request only in WAITING with isPolling;
\* a step that moves WAITING to MATCHED leaves isPolling false, unless it
\* is the answer to the search itself; and an idle dashboard (as a
\* successful Cancel Waiting leaves it) stays IDLE without a match status
\* until the user clicks Find Partner
C29_PollingAndCancel ==
  [][ /\ pollCalls' > pollCalls => (dashboardState = "WAITING" /\ isPolling)
      /\ (dashboardState = "WAITING" /\ dashboardState' = "MATCHED" /\ polls' < polls)
           => (matchStatus' = "MATCHED" /\ ~isPolling')
      /\ DashIdle => ((dashboardState' = "IDLE" /\ matchStatus' = Null) \/ findCalls' > findCalls)
    ]_vars

\* the first two parts of C29 alone
C29_PollsOnlyWhileWaiting ==
  [][ /\ pollCalls' > pollCalls => (dashboardState = "WAITING" /\ isPolling)
      /\ (dashboardState = "WAITING" /\ dashboardState' = "MATCHED" /\ polls' < polls)
           => (matchStatus' = "MATCHED" /\ ~isPolling')
    ]_vars

\* the host of a url, Null when the url has no scheme://host
Host(u) == IF Len(u) >= 3 /\ u[2] = "//" THEN u[3] ELSE Null

\* the url in the field is empty or is not a url of github.com
EmptyOrNonGitHub == Trim(githubUrl) = <<>> \/ Host(Trim(githubUrl)) # "github.com"

====